---- MODULE Spec2Model ----
(***************************************************************************)
(* Model of pkg/imagestream/imagestream.go: the image-stream facade of the *)
(* registry.  One facade instance (one repository-scoped request) is       *)
(* modelled together with the metadata service it talks to.  The service   *)
(* is the environment: each request gets an outcome chosen from a bounded  *)
(* universe of outcomes.                                                   *)
(***************************************************************************)
EXTENDS Integers, Sequences, FiniteSets, TLC

(***************************************************************************)
(* Bounds of the model.                                                    *)
(***************************************************************************)
\* longest tag history (number of TagEvents under one tag) of a stream
MaxHist == 2
\* most tags in the status of a stream snapshot
MaxTags == 3

(***************************************************************************)
(* Program constants.                                                      *)
(***************************************************************************)
ErrImageStreamCode == "ImageStream:"
ErrImageStreamUnknownErrorCode == "ImageStream:Unknown"
ErrImageStreamNotFoundCode == "ImageStream:NotFound"
ErrImageStreamImageNotFoundCode == "ImageStream:ImageNotFound"
ErrImageStreamForbiddenCode == "ImageStream:Forbidden"

\* codes of the stream getter (internal tier of the error taxonomy)
ErrImageStreamGetterNotFoundCode == "ImageStreamGetter:NotFound"
ErrImageStreamGetterForbiddenCode == "ImageStreamGetter:Forbidden"
ErrImageStreamGetterUnknownErrorCode == "ImageStreamGetter:Unknown"

GetterCodes ==
  { ErrImageStreamGetterNotFoundCode, ErrImageStreamGetterForbiddenCode,
    ErrImageStreamGetterUnknownErrorCode }

\* http.StatusNotFound and the other status codes the library looks at
StatusNotFound == 404
StatusConflict == 409
StatusForbidden == 403
StatusUnauthorized == 401
StatusInternalServerError == 500

\* the identity of the facade instance: is.namespace and is.name
namespace == "ns"
name == "app"

(***************************************************************************)
(* Errors of the metadata transport.  An error is "nil", a plain error, or *)
(* a *kerrors.StatusError carrying ErrStatus {Reason, Code, Details}.      *)
(* Details is a pointer: NoDetails is the nil pointer.  quota tells that   *)
(* the error is a quota or limit denial; the service reports those with    *)
(* reason Forbidden (quota) or Invalid (limits) only.                      *)
(***************************************************************************)
NoError == [kind |-> "nil"]
NoDetails == [present |-> FALSE]

Reasons ==
  {"NotFound", "AlreadyExists", "Conflict", "Forbidden", "Unauthorized",
   "Invalid", ""}
KnownReasons == Reasons \ {""}
Codes == {StatusNotFound, StatusConflict, StatusInternalServerError}
Kinds == {"imagestreammappings", "namespaces", "Namespaces"}
Names == {name, "other"}

DetailsSet ==
  {NoDetails} \cup [present : {TRUE}, Kind : Kinds, Name : Names]

PlainErrors == [kind : {"plain"}, quota : {FALSE}]

StatusErrors ==
  { e \in [kind : {"status"}, quota : BOOLEAN, Reason : Reasons,
           Code : Codes, Details : DetailsSet] :
      e.quota => e.Reason \in {"Forbidden", "Invalid"} }

\* every failure the transport can answer a request with
Failures == PlainErrors \cup StatusErrors

\* every outcome of a request
Errors == {NoError} \cup Failures

\* the failures a server produces with kerrors.NewNotFound and friends
\* (code and reason agree, details present) plus one of every other shape
CanonicalCode(reason) ==
  CASE reason = "NotFound" -> StatusNotFound
    [] reason = "AlreadyExists" -> StatusConflict
    [] reason = "Conflict" -> StatusConflict
    [] OTHER -> StatusInternalServerError

CoreErrors ==
  {NoError} \cup PlainErrors
    \cup { e \in StatusErrors :
             /\ e.Code = CanonicalCode(e.Reason)
             /\ e.Details.present => e.Details.Name = name
             /\ e.Details.present => e.Details.Kind # "Namespaces" }

\* kerrors.reasonAndCodeForError / the Is* predicates of apimachinery
ReasonForError(err) == IF err.kind = "status" THEN err.Reason ELSE ""
CodeForError(err) == IF err.kind = "status" THEN err.Code ELSE 0

IsReasonOrCode(err, reason, code) ==
  \/ ReasonForError(err) = reason
  \/ ReasonForError(err) \notin KnownReasons /\ CodeForError(err) = code

IsNotFound(err) == IsReasonOrCode(err, "NotFound", StatusNotFound)
IsAlreadyExists(err) == ReasonForError(err) = "AlreadyExists"
IsConflict(err) == IsReasonOrCode(err, "Conflict", StatusConflict)
IsForbidden(err) == IsReasonOrCode(err, "Forbidden", StatusForbidden)
IsUnauthorized(err) == IsReasonOrCode(err, "Unauthorized", StatusUnauthorized)

\* quotautil.IsErrorQuotaExceeded: the quota classifier
IsErrorQuotaExceeded(err) == err.kind # "nil" /\ err.quota

\* strings.ToLower on the kinds of the model
ToLower(s) == IF s = "Namespaces" THEN "namespaces" ELSE s


(***************************************************************************)
(* Data model: TagEvents, streams, memoization cells.                      *)
(***************************************************************************)
\* registry host of the local registry and of an external one
LocalRegistry == "registry.local"
RemoteRegistry == "docker.io"

\* digest strings the requests of the model ask for
Digests == {"sha256:aa", "sha256:bb"}

\* a parsed DockerImageReference: registry/namespace/name@id
LocalRef(d) == [Registry |-> LocalRegistry, Namespace |-> namespace, Name |-> name, ID |-> d]
RemoteRef(d) == [Registry |-> RemoteRegistry, Namespace |-> "lib", Name |-> "base", ID |-> d]

\* imageapiv1.TagEvent: the digest under a tag and the reference recorded
TagEvents ==
  { [Image |-> "sha256:aa", DockerImageReference |-> r] :
      r \in {LocalRef("sha256:aa"), RemoteRef("sha256:aa")} }

SeqUpTo(S, n) == UNION { [1..k -> S] : k \in 0..n }

\* imageapiv1.ImageStream as the metadata service holds it for (namespace,
\* name): insecure is the value of the insecure-repository annotation, set
\* on the streams of at most one event
ServiceStreams ==
  { s \in { [Namespace |-> namespace, Name |-> name, insecure |-> ins,
             SpecTags |-> <<>>,
             StatusTags |-> IF items = <<>> THEN <<>>
                            ELSE <<[Tag |-> "latest", Items |-> items]>>,
             DockerImageRepository |-> LocalRegistry,
             PublicDockerImageRepository |-> ""] :
              ins \in BOOLEAN, items \in SeqUpTo(TagEvents, MaxHist) } :
      s.insecure => (s.StatusTags = <<>> \/ Len(s.StatusTags[1].Items) <= 1) }

\* stream := &imageapiv1.ImageStream{}; stream.Name = is.name
NameOnlyStream ==
  [Namespace |-> "", Name |-> name, insecure |-> FALSE, SpecTags |-> <<>>,
   StatusTags |-> <<>>, DockerImageRepository |-> "",
   PublicDockerImageRepository |-> ""]

\* a memoization cell: not yet fetched, a value, or a failure
Unfetched == [state |-> "unfetched"]
Cached(v) == [state |-> "ok", value |-> v]
CachedFailure(code) == [state |-> "err", code |-> code]

(***************************************************************************)
(* State.                                                                  *)
(***************************************************************************)
VARIABLES
  imageStreamGetter, \* is.imageStreamGetter: the memo cells stream and layers
  imageClient,       \* is.imageClient: one memo cell per digest
  limitCache,        \* the caller's ProjectObjectListStore: its entries
  pc,                \* position of the request's flow of control
  trace,             \* requests (and cache injections) of the current call
  lastErr,           \* outcome of the latest transport request of the call
  observed,          \* what imageStreamGetter.get() gave the current call
  ret                \* what the latest call returned

vars ==
  <<imageStreamGetter, imageClient, limitCache, pc, trace, lastErr, observed, ret>>

\* the two capability handles of the publish operation
RegistryClient == "registryOSClient"
UserClient == "userClient"

Request(req, client) == [step |-> req, client |-> client]
Inject == [step |-> "cacheImageStream", client |-> "none"]

\* the stream create sent with the registry's own identity
ProvisioningClientRegistry == RegistryClient

\* line 464: the stream is created through userClient
ProvisioningClient == UserClient

\* results of a call
Returned(op, val) == [op |-> op, status |-> "ok", code |-> "", val |-> val]
\* rerrors.NewError(code, msg, err)
NewError(op, code) == [op |-> op, status |-> "error", code |-> code, val |-> "none"]
\* a runtime panic (nil pointer dereference) unwinding out of the call
Panicked(op) == [op |-> op, status |-> "panic", code |-> "", val |-> "none"]
\* a result together with the arguments of the call
WithArg(r, a) ==
  [op |-> r.op, status |-> r.status, code |-> r.code, val |-> r.val, arg |-> a]
NoObservation == [state |-> "none"]
NoCall == [op |-> "none", status |-> "ok", code |-> "", val |-> "none"]

Init ==
  /\ imageStreamGetter = [stream |-> Unfetched, layers |-> Unfetched]
  /\ imageClient = [d \in Digests |-> Unfetched]
  /\ limitCache \in {{}, {[Namespace |-> namespace, List |-> "limits-kept"]}}
  /\ pc = "idle"
  /\ trace = <<>>
  /\ lastErr = NoError
  /\ observed = NoObservation
  /\ ret = NoCall

(***************************************************************************)
(* Stream Getter (cachedImageStreamGetter).                                *)
(***************************************************************************)
\* outcomes of fetching the stream from the metadata service
StreamFetchOutcomes ==
  { Cached(s) : s \in ServiceStreams } \cup { CachedFailure(c) : c \in GetterCodes }

\* get(): the memoized outcome, or any outcome of a first fetch
GetOutcomes(cell) == IF cell = Unfetched THEN StreamFetchOutcomes ELSE {cell}

\* the requests get() issues: one fetch when nothing is memoized
GetRequests(cell) ==
  IF cell = Unfetched THEN <<Request("GetImageStream", RegistryClient)>> ELSE <<>>

\* cacheImageStream(stream): overwrite the memoized stream
cacheImageStream(getter, stream) == [getter EXCEPT !.stream = Cached(stream)]

(***************************************************************************)
(* convertImageStreamGetterError                                           *)
(***************************************************************************)
\* the getter's code handed on where the switch has no case for it
convertImageStreamGetterErrorPassThrough(code) ==
  CASE code = ErrImageStreamGetterNotFoundCode -> ErrImageStreamNotFoundCode
    [] code = ErrImageStreamGetterForbiddenCode -> ErrImageStreamForbiddenCode
    [] OTHER -> code

convertImageStreamGetterError(code) ==
  CASE code = ErrImageStreamGetterNotFoundCode -> ErrImageStreamNotFoundCode
    [] code = ErrImageStreamGetterForbiddenCode -> ErrImageStreamForbiddenCode
    [] OTHER -> ErrImageStreamUnknownErrorCode

(***************************************************************************)
(* Exists                                                                  *)
(***************************************************************************)
\* Exists without the special case of the getter's NotFound
ExistsResultNotFoundAsError(cell) ==
  IF cell.state = "err"
  THEN [NewError("Exists", convertImageStreamGetterError(cell.code))
          EXCEPT !.val = FALSE]
  ELSE Returned("Exists", TRUE)

ExistsResult(cell) ==
  IF cell.state = "err"
  THEN IF cell.code = ErrImageStreamGetterNotFoundCode
       THEN Returned("Exists", FALSE)
       ELSE [NewError("Exists", convertImageStreamGetterError(cell.code))
               EXCEPT !.val = FALSE]
  ELSE Returned("Exists", TRUE)

Exists ==
  /\ pc = "idle"
  /\ \E cell \in GetOutcomes(imageStreamGetter.stream) :
       /\ imageStreamGetter' = [imageStreamGetter EXCEPT !.stream = cell]
       /\ observed' = cell
       /\ ret' = ExistsResult(cell)
  /\ trace' = GetRequests(imageStreamGetter.stream)
  /\ lastErr' = NoError
  /\ UNCHANGED <<imageClient, limitCache, pc>>

(***************************************************************************)
(* CreateImageStreamMapping: the first mapping create and the              *)
(* classification of its failure, the provisioning of the stream, and the  *)
(* second mapping create.                                                  *)
(***************************************************************************)
\* the test of lines 450-453 without the comparison of the name
IsStreamMissingAnyName(err) ==
  LET isValidKind ==
        err.Details.present /\ err.Details.Kind = "imagestreammappings"
  IN ~(~isValidKind \/ err.Code # StatusNotFound)

\* lines 450-453, negated: the failure tells that the stream is missing
IsStreamMissing(err) ==
  LET isValidKind ==
        err.Details.present /\ err.Details.Kind = "imagestreammappings"
  IN ~(\/ ~isValidKind
       \/ err.Code # StatusNotFound
       \/ err.Details.Name # name)

\* the first failure never read as a missing namespace
IsNamespaceMissingNever(err) == FALSE

\* line 442: a not-found whose details name the kind namespaces
IsNamespaceMissing(err) ==
  IsNotFound(err) /\ ToLower(err.Details.Kind) = "namespaces"

\* lines 417-459: what the call does with the outcome of the first create;
\* "provision" stands for falling through to line 461
ClassifyFirstCreate(err) ==
  IF err = NoError THEN Returned("CreateImageStreamMapping", "none")
  ELSE IF IsErrorQuotaExceeded(err)
  THEN NewError("CreateImageStreamMapping", ErrImageStreamForbiddenCode)
  ELSE IF err.kind # "status"
  THEN NewError("CreateImageStreamMapping", ErrImageStreamUnknownErrorCode)
  ELSE IF IsNotFound(err) /\ ~err.Details.present
  THEN Panicked("CreateImageStreamMapping")   \* status.Details.Kind on nil
  ELSE IF IsNamespaceMissing(err)
  THEN NewError("CreateImageStreamMapping", ErrImageStreamForbiddenCode)
  ELSE IF ~IsStreamMissing(err)
  THEN NewError("CreateImageStreamMapping", ErrImageStreamUnknownErrorCode)
  ELSE [op |-> "CreateImageStreamMapping", status |-> "provision",
        code |-> "", val |-> "none"]

\* line 467 without the Conflict case
StreamCreateToleratedNoConflict(err) == IsAlreadyExists(err)

\* line 467: the failures of the stream create that are fine
StreamCreateTolerated(err) == IsAlreadyExists(err) \/ IsConflict(err)

\* lines 466-481: the switch on the outcome of the stream create; "inject"
\* stands for leaving the switch
ClassifyStreamCreate(err) ==
  IF StreamCreateTolerated(err)
  THEN [op |-> "CreateImageStreamMapping", status |-> "inject",
        code |-> "", val |-> "none"]
  ELSE IF IsForbidden(err) \/ IsUnauthorized(err) \/ IsErrorQuotaExceeded(err)
  THEN NewError("CreateImageStreamMapping", ErrImageStreamForbiddenCode)
  ELSE IF err # NoError
  THEN NewError("CreateImageStreamMapping", ErrImageStreamUnknownErrorCode)
  ELSE [op |-> "CreateImageStreamMapping", status |-> "inject",
        code |-> "", val |-> "none"]

\* the second create without the quota case
ClassifySecondCreateNoQuota(err) ==
  IF err = NoError THEN Returned("CreateImageStreamMapping", "none")
  ELSE NewError("CreateImageStreamMapping", ErrImageStreamUnknownErrorCode)

\* lines 489-505: the outcome of the second mapping create
ClassifySecondCreate(err) ==
  IF err = NoError THEN Returned("CreateImageStreamMapping", "none")
  ELSE IF IsErrorQuotaExceeded(err)
  THEN NewError("CreateImageStreamMapping", ErrImageStreamForbiddenCode)
  ELSE NewError("CreateImageStreamMapping", ErrImageStreamUnknownErrorCode)

InCall == [op |-> "CreateImageStreamMapping", status |-> "running",
           code |-> "", val |-> "none"]

\* the publish step caching the stream also when the first create succeeds
CreateImageStreamMappingPublishCaching(E) ==
  /\ pc = "idle"
  /\ \E err \in E :
       LET r == ClassifyFirstCreate(err) IN
       /\ lastErr' = err
       /\ IF r.status = "provision"
          THEN pc' = "Provisioning" /\ ret' = InCall
          ELSE /\ pc' = IF r.status = "panic" THEN "panicked" ELSE "idle"
               /\ ret' = r
       /\ imageStreamGetter' =
            IF err = NoError
            THEN cacheImageStream(imageStreamGetter, NameOnlyStream)
            ELSE imageStreamGetter
  /\ trace' = <<Request("CreateImageStreamMapping", RegistryClient)>>
  /\ observed' = NoObservation
  /\ UNCHANGED <<imageClient, limitCache>>

\* line 415: is.registryOSClient.ImageStreamMappings(ns).Create
CreateImageStreamMappingPublish(E) ==
  /\ pc = "idle"
  /\ \E err \in E :
       LET r == ClassifyFirstCreate(err) IN
       /\ lastErr' = err
       /\ IF r.status = "provision"
          THEN pc' = "Provisioning" /\ ret' = InCall
          ELSE /\ pc' = IF r.status = "panic" THEN "panicked" ELSE "idle"
               /\ ret' = r
  /\ trace' = <<Request("CreateImageStreamMapping", RegistryClient)>>
  /\ observed' = NoObservation
  /\ UNCHANGED <<imageStreamGetter, imageClient, limitCache>>

\* the record cached being one the service holds for the stream
ProvisionedStreamOfService ==
  CHOOSE s \in ServiceStreams : s.StatusTags # <<>>

\* lines 461-464, 484: the record handed to cacheImageStream is the one built
\* at lines 461-462; what Create returns is dropped
ProvisionedStream == NameOnlyStream

\* the getter after a stream create that caches whatever the outcome
InjectedGetterAlways(getter, r) == cacheImageStream(getter, ProvisionedStream)

\* lines 466-484: cacheImageStream is reached only when the switch is left
InjectedGetter(getter, r) ==
  IF r.status = "inject" THEN cacheImageStream(getter, ProvisionedStream) ELSE getter

\* line 464: userClient.ImageStreams(ns).Create, then lines 483-484
CreateImageStreamMappingProvision(E) ==
  /\ pc = "Provisioning"
  /\ \E err \in E :
       LET r == ClassifyStreamCreate(err) IN
       /\ lastErr' = err
       /\ IF r.status = "inject"
          THEN /\ imageStreamGetter' = InjectedGetter(imageStreamGetter, r)
               /\ trace' = trace \o <<Request("CreateImageStream", ProvisioningClient), Inject>>
               /\ pc' = "RetryingPublish"
               /\ ret' = InCall
          ELSE /\ imageStreamGetter' = InjectedGetter(imageStreamGetter, r)
               /\ trace' = Append(trace, Request("CreateImageStream", ProvisioningClient))
               /\ pc' = "idle"
               /\ ret' = r
  /\ UNCHANGED <<imageClient, limitCache, observed>>

\* line 487: the second is.registryOSClient.ImageStreamMappings(ns).Create
CreateImageStreamMappingRetry(E) ==
  /\ pc = "RetryingPublish"
  /\ \E err \in E :
       /\ lastErr' = err
       /\ ret' = ClassifySecondCreate(err)
  /\ trace' = Append(trace, Request("CreateImageStreamMapping", RegistryClient))
  /\ pc' = "idle"
  /\ UNCHANGED <<imageStreamGetter, imageClient, limitCache, observed>>

(***************************************************************************)
(* Pure helpers over a stream snapshot.                                    *)
(***************************************************************************)
\* digest.Parse: the digest strings of the model that parse
ParsesAsDigest(str) == str \in Digests

\* every (tag index, item index) of the tag status
EventPositions(stream) ==
  UNION { { <<i, j>> : j \in 1..Len(stream.StatusTags[i].Items) } :
            i \in 1..Len(stream.StatusTags) }

EventAt(stream, pos) == stream.StatusTags[pos[1]].Items[pos[2]]

\* originutil.ResolveImageID: the TagEvents that record the digest
MatchingEvents(stream, dgst) ==
  { pos \in EventPositions(stream) : EventAt(stream, pos).Image = dgst }

\* originutil.LatestImageTagEvent: the tags whose history records the digest
TagsOfImage(stream, dgst) ==
  { stream.StatusTags[pos[1]].Tag : pos \in MatchingEvents(stream, dgst) }

\* getLocalRegistryNames: registry hosts of the two repository fields ("" is
\* a field that is empty or does not parse)
getLocalRegistryNames(stream) ==
  (IF stream.DockerImageRepository # "" THEN {stream.DockerImageRepository} ELSE {})
    \cup (IF stream.PublicDockerImageRepository # ""
          THEN {stream.PublicDockerImageRepository} ELSE {})

\* the prefix test looking at the registry host alone
HasLocalPrefixHostOnly(ref, registry, stream) == ref.Registry = registry

\* strings.HasPrefix(ref, registry/namespace/name@)
HasLocalPrefix(ref, registry, stream) ==
  /\ ref.Registry = registry
  /\ ref.Namespace = stream.Namespace
  /\ ref.Name = stream.Name

imageStreamHasExternalReferences(stream) ==
  \E pos \in EventPositions(stream) :
    \A registry \in getLocalRegistryNames(stream) :
      ~HasLocalPrefix(EventAt(stream, pos).DockerImageReference, registry, stream)

\* imageBlobReferencesHasBlob
imageBlobReferencesHasBlob(info, dgst) ==
  \/ info.Config = dgst
  \/ \E k \in 1..Len(info.Layers) : info.Layers[k] = dgst

\* remoteRepositoriesForImages: image-stream references for events recorded
\* from a local registry host, remote repositories for the others
remoteRepositoriesForImages(stream, images) ==
  LET hits == { pos \in EventPositions(stream) : EventAt(stream, pos).Image \in images }
      refs == { EventAt(stream, pos).DockerImageReference : pos \in hits }
      local == { r \in refs : r.Registry \in getLocalRegistryNames(stream) }
  IN [repos |-> { [Registry |-> r.Registry, Namespace |-> r.Namespace, Name |-> r.Name] :
                    r \in refs \ local },
      isrefs |-> { [Namespace |-> r.Namespace, Name |-> r.Name] : r \in local }]

\* the loop of Tags giving up at a digest that does not parse
TagsMapUntilUnparsable(stream) ==
  LET heads == { i \in 1..Len(stream.StatusTags) :
                   /\ Len(stream.StatusTags[i].Items) # 0
                   /\ \A l \in 1..i :
                        Len(stream.StatusTags[l].Items) # 0
                          => ParsesAsDigest(stream.StatusTags[l].Items[1].Image) }
  IN { <<stream.StatusTags[i].Tag, stream.StatusTags[i].Items[1].Image>> : i \in heads }

\* the loop of Tags: tag -> digest of the first event, where it parses
TagsMap(stream) ==
  LET heads == { i \in 1..Len(stream.StatusTags) :
                   /\ Len(stream.StatusTags[i].Items) # 0
                   /\ ParsesAsDigest(stream.StatusTags[i].Items[1].Image) }
  IN { <<stream.StatusTags[i].Tag, stream.StatusTags[i].Items[1].Image>> : i \in heads }

(***************************************************************************)
(* Reads of the stream: every one starts with imageStreamGetter.get().     *)
(***************************************************************************)
\* the resolver failing as soon as two TagEvents match
ResolvedImagesPerEvent(stream, dgst) == MatchingEvents(stream, dgst)

\* lines 131-132, 140: the images matching the ID; several TagEvents of one
\* image are one match
ResolvedImages(stream, dgst) ==
  { EventAt(stream, pos).Image : pos \in MatchingEvents(stream, dgst) }

\* ResolveImageID: the results the call can give (with several TagEvents of
\* the image, any of them may be the one handed back)
ResolveImageIDResults(cell, dgst) ==
  IF cell.state = "err"
  THEN {NewError("ResolveImageID", convertImageStreamGetterError(cell.code))}
  ELSE LET n == Cardinality(ResolvedImages(cell.value, dgst)) IN
       IF n = 1
       THEN { Returned("ResolveImageID", EventAt(cell.value, pos)) :
                pos \in MatchingEvents(cell.value, dgst) }
       ELSE IF n = 0
       THEN {NewError("ResolveImageID", ErrImageStreamImageNotFoundCode)}
       ELSE {NewError("ResolveImageID", ErrImageStreamUnknownErrorCode)}

ResolveImageID ==
  /\ pc = "idle"
  /\ \E dgst \in Digests, cell \in GetOutcomes(imageStreamGetter.stream) :
       /\ imageStreamGetter' = [imageStreamGetter EXCEPT !.stream = cell]
       /\ observed' = cell
       /\ \E r \in ResolveImageIDResults(cell, dgst) : ret' = WithArg(r, dgst)
  /\ trace' = GetRequests(imageStreamGetter.stream)
  /\ lastErr' = NoError
  /\ UNCHANGED <<imageClient, limitCache, pc>>

\* the tag lookup answering true for every tag that has an entry
SpecTagInsecureAnyEntry(stream, t) ==
  t # "" /\ \E k \in 1..Len(stream.SpecTags) : stream.SpecTags[k].Name = t

\* lines 234-242: the import policy of the first entry of the tag spec named
\* t, false without such an entry or with the empty tag
SpecTagInsecure(stream, t) ==
  IF t # "" /\ \E k \in 1..Len(stream.SpecTags) : stream.SpecTags[k].Name = t
  THEN LET k == CHOOSE k \in 1..Len(stream.SpecTags) :
                  /\ stream.SpecTags[k].Name = t
                  /\ \A l \in 1..(k - 1) : stream.SpecTags[l].Name # t
       IN stream.SpecTags[k].Insecure
  ELSE FALSE

\* TagIsInsecure
TagIsInsecureResults(cell, tag, dgst) ==
  IF cell.state = "err"
  THEN {NewError("TagIsInsecure", convertImageStreamGetterError(cell.code))}
  ELSE LET stream == cell.value
           tags == IF tag # "" THEN {tag}
                   ELSE IF TagsOfImage(stream, dgst) = {} THEN {""}
                   ELSE TagsOfImage(stream, dgst)
       IN IF stream.insecure THEN {Returned("TagIsInsecure", TRUE)}
          ELSE { Returned("TagIsInsecure", SpecTagInsecure(stream, t)) : t \in tags }

TagIsInsecure ==
  /\ pc = "idle"
  /\ \E tag \in {"", "latest", "v1"}, dgst \in Digests :
       \E cell \in GetOutcomes(imageStreamGetter.stream) :
         /\ imageStreamGetter' = [imageStreamGetter EXCEPT !.stream = cell]
         /\ observed' = cell
         /\ \E r \in TagIsInsecureResults(cell, tag, dgst) :
              ret' = WithArg(r, [tag |-> tag, dgst |-> dgst])
  /\ trace' = GetRequests(imageStreamGetter.stream)
  /\ lastErr' = NoError
  /\ UNCHANGED <<imageClient, limitCache, pc>>

\* Tags
TagsResult(cell) ==
  IF cell.state = "err"
  THEN NewError("Tags", convertImageStreamGetterError(cell.code))
  ELSE Returned("Tags", TagsMap(cell.value))

\* Tags asking the metadata service instead of the getter
TagsBypassingGetter ==
  /\ pc = "idle"
  /\ \E cell \in StreamFetchOutcomes :
       /\ imageStreamGetter' = [imageStreamGetter EXCEPT !.stream = cell]
       /\ observed' = cell
       /\ ret' = TagsResult(cell)
  /\ trace' = <<Request("GetImageStream", RegistryClient)>>
  /\ lastErr' = NoError
  /\ UNCHANGED <<imageClient, limitCache, pc>>

Tags ==
  /\ pc = "idle"
  /\ \E cell \in GetOutcomes(imageStreamGetter.stream) :
       /\ imageStreamGetter' = [imageStreamGetter EXCEPT !.stream = cell]
       /\ observed' = cell
       /\ ret' = TagsResult(cell)
  /\ trace' = GetRequests(imageStreamGetter.stream)
  /\ lastErr' = NoError
  /\ UNCHANGED <<imageClient, limitCache, pc>>

\* RemoteRepositoriesForManifest
RemoteRepositoriesForManifestResult(cell, dgst) ==
  IF cell.state = "err"
  THEN NewError("RemoteRepositoriesForManifest", convertImageStreamGetterError(cell.code))
  ELSE Returned("RemoteRepositoriesForManifest",
                remoteRepositoriesForImages(cell.value, {dgst}))

RemoteRepositoriesForManifest ==
  /\ pc = "idle"
  /\ \E dgst \in Digests, cell \in GetOutcomes(imageStreamGetter.stream) :
       /\ imageStreamGetter' = [imageStreamGetter EXCEPT !.stream = cell]
       /\ observed' = cell
       /\ ret' = RemoteRepositoriesForManifestResult(cell, dgst)
  /\ trace' = GetRequests(imageStreamGetter.stream)
  /\ lastErr' = NoError
  /\ UNCHANGED <<imageClient, limitCache, pc>>

(***************************************************************************)
(* RemoteRepositoriesForBlob: the second memo cell of the stream getter.   *)
(***************************************************************************)
\* imageapiv1.ImageStreamLayers.Images: image digest -> ImageBlobReferences
\* (Config "" is the nil pointer)
BlobIndexes ==
  { {},
    { [Image |-> "sha256:aa", Config |-> "sha256:bb", Layers |-> <<>>] },
    { [Image |-> "sha256:aa", Config |-> "", Layers |-> <<"sha256:bb">>] } }

\* outcomes of fetching the layers of the stream
LayersFetchOutcomes ==
  { Cached(x) : x \in BlobIndexes } \cup { CachedFailure(c) : c \in GetterCodes }

\* layers(): the memoized outcome, or any outcome of a first fetch
LayersOutcomes(cell) == IF cell = Unfetched THEN LayersFetchOutcomes ELSE {cell}

LayersRequests(cell) ==
  IF cell = Unfetched THEN <<Request("GetImageStreamLayers", RegistryClient)>> ELSE <<>>

\* lines 340-358: what the call returns once it holds stream and layers
RemoteRepositoriesForBlobResult(stream, lcell, dgst) ==
  IF lcell.state = "err"
  THEN NewError("RemoteRepositoriesForBlob", convertImageStreamGetterError(lcell.code))
  ELSE LET images == { info.Image : info \in
                         { x \in lcell.value : imageBlobReferencesHasBlob(x, dgst) } }
       IN IF images = {}
          THEN Returned("RemoteRepositoriesForBlob", [repos |-> {}, isrefs |-> {}])
          ELSE Returned("RemoteRepositoriesForBlob",
                        remoteRepositoriesForImages(stream, images))

\* the layers asked for whatever the stream refers to
LayersNeededAlways(stream) == TRUE

\* lines 327-333: layers() is called only past the early return for a stream
\* without external references
LayersNeeded(stream) == imageStreamHasExternalReferences(stream)

RemoteRepositoriesForBlob ==
  /\ pc = "idle"
  /\ \E dgst \in Digests, cell \in GetOutcomes(imageStreamGetter.stream) :
       /\ observed' = cell
       /\ IF cell.state = "err"
          THEN /\ imageStreamGetter' = [imageStreamGetter EXCEPT !.stream = cell]
               /\ trace' = GetRequests(imageStreamGetter.stream)
               /\ ret' = NewError("RemoteRepositoriesForBlob",
                                  convertImageStreamGetterError(cell.code))
          ELSE IF ~LayersNeeded(cell.value)
          THEN /\ imageStreamGetter' = [imageStreamGetter EXCEPT !.stream = cell]
               /\ trace' = GetRequests(imageStreamGetter.stream)
               /\ ret' = Returned("RemoteRepositoriesForBlob",
                                  [repos |-> {}, isrefs |-> {}])
          ELSE \E lcell \in LayersOutcomes(imageStreamGetter.layers) :
                 /\ imageStreamGetter' = [stream |-> cell, layers |-> lcell]
                 /\ trace' = GetRequests(imageStreamGetter.stream)
                               \o LayersRequests(imageStreamGetter.layers)
                 /\ ret' = RemoteRepositoriesForBlobResult(cell.value, lcell, dgst)
  /\ lastErr' = NoError
  /\ UNCHANGED <<imageClient, limitCache, pc>>

(***************************************************************************)
(* Image Getter (cachedImageGetter) and GetImageOfImageStream.             *)
(***************************************************************************)
\* imageapiv1.Image records the service holds for a digest
ImagesOf(dgst) ==
  { [Name |-> dgst, DockerImageReference |-> r] : r \in {LocalRef(dgst), RemoteRef(dgst)} }

\* outcomes of fetching an image: a record, not-found or another failure
ImageFetchOutcomes(dgst) ==
  { Cached(img) : img \in ImagesOf(dgst) }
    \cup { CachedFailure(k) : k \in {"NotFound", "Other"} }

ImageOutcomes(cell, dgst) == IF cell = Unfetched THEN ImageFetchOutcomes(dgst) ELSE {cell}

\* the request Get issues when nothing is memoized, with the answer it got
ImageRequests(cell, icell) ==
  IF cell = Unfetched
  THEN <<[step |-> "GetImage", client |-> RegistryClient, response |-> icell]>>
  ELSE <<>>

\* getImage
getImageResult(icell) ==
  IF icell.state = "err"
  THEN IF icell.code = "NotFound"
       THEN NewError("GetImageOfImageStream", ErrImageStreamImageNotFoundCode)
       ELSE NewError("GetImageOfImageStream", ErrImageStreamUnknownErrorCode)
  ELSE Returned("GetImageOfImageStream", icell.value)

\* img := *image; img.DockerImageReference = tagEvent.DockerImageReference
WithTagReference(image, tagEvent) ==
  [image EXCEPT !.DockerImageReference = tagEvent.DockerImageReference]

\* the cached record after the reference was set on the object itself
StoredImageMutatedInPlace(image, tagEvent) == WithTagReference(image, tagEvent)

\* lines 197-199: the reference is set on the copy img, the record *image the
\* getter holds stays as it was
StoredImage(image, tagEvent) == image

\* GetImageOfImageStream over getStoredImageOfImageStream
GetImageOfImageStream ==
  /\ pc = "idle"
  /\ \E dgst \in Digests, cell \in GetOutcomes(imageStreamGetter.stream) :
       \E resolved \in ResolveImageIDResults(cell, dgst) :
       /\ observed' = cell
       /\ imageStreamGetter' = [imageStreamGetter EXCEPT !.stream = cell]
       /\ IF resolved.status = "error"
          THEN /\ ret' = [resolved EXCEPT !.op = "GetImageOfImageStream"]
               /\ trace' = GetRequests(imageStreamGetter.stream)
               /\ imageClient' = imageClient
          ELSE \E icell \in ImageOutcomes(imageClient[dgst], dgst) :
                 /\ imageClient' =
                      [imageClient EXCEPT ![dgst] =
                         IF icell.state = "err" THEN icell
                         ELSE Cached(StoredImage(icell.value, resolved.val))]
                 /\ trace' = GetRequests(imageStreamGetter.stream)
                               \o ImageRequests(imageClient[dgst], icell)
                 /\ ret' = IF icell.state = "err" THEN getImageResult(icell)
                           ELSE Returned("GetImageOfImageStream",
                                         WithTagReference(icell.value, resolved.val))
  /\ lastErr' = NoError
  /\ UNCHANGED <<limitCache, pc>>

(***************************************************************************)
(* GetSecrets and GetLimitRangeList.                                       *)
(***************************************************************************)
GetSecrets ==
  /\ pc = "idle"
  /\ \E err \in {NoError} \cup PlainErrors :
       /\ lastErr' = err
       /\ ret' = IF err # NoError
                 THEN NewError("GetSecrets", ErrImageStreamUnknownErrorCode)
                 ELSE Returned("GetSecrets", "secrets")
  /\ trace' = <<Request("GetImageStreamSecrets", RegistryClient)>>
  /\ observed' = NoObservation
  /\ UNCHANGED <<imageStreamGetter, imageClient, limitCache, pc>>

\* the lookup that never finds an entry
cacheGetNothing(cache, supplied) == {}

\* lines 510-515: the entries cache.Get(is.namespace) reports, none when the
\* caller supplied no cache; the error cache.Get returns is ignored
cacheGet(cache, supplied) ==
  IF supplied THEN { e \in cache : e.Namespace = namespace } ELSE {}

\* lines 527-532: cache.Add(is.namespace, lrs), which may fail
cacheAdd(cache, supplied, addOk, lrs) ==
  IF supplied /\ addOk
  THEN cache \cup {[Namespace |-> namespace, List |-> lrs]}
  ELSE cache

\* cache is the caller's store (supplied) or nil
GetLimitRangeList ==
  /\ pc = "idle"
  /\ observed' = NoObservation
  /\ \E supplied \in BOOLEAN, addOk \in BOOLEAN :
       LET arg == [supplied |-> supplied, addOk |-> addOk] IN
       IF cacheGet(limitCache, supplied) # {}
       THEN /\ \E e \in cacheGet(limitCache, supplied) :
                 ret' = WithArg(Returned("GetLimitRangeList", e.List), arg)
            /\ trace' = <<>>
            /\ lastErr' = NoError
            /\ limitCache' = limitCache
       ELSE \E err \in {NoError} \cup PlainErrors :
              /\ trace' = <<Request("ListLimitRanges", RegistryClient)>>
              /\ lastErr' = err
              /\ IF err # NoError
                 THEN /\ ret' = WithArg(NewError("GetLimitRangeList",
                                                 ErrImageStreamUnknownErrorCode), arg)
                      /\ limitCache' = limitCache
                 ELSE /\ ret' = WithArg(Returned("GetLimitRangeList", "limits-listed"), arg)
                      /\ limitCache' = cacheAdd(limitCache, supplied, addOk, "limits-listed")
  /\ UNCHANGED <<imageStreamGetter, imageClient, pc>>

(***************************************************************************)
(* Reads of a stream snapshot the getter holds.  The snapshot is any       *)
(* stream of a bounded universe: up to MaxTags tags whose histories hold   *)
(* up to MaxHist events together.                                          *)
(***************************************************************************)
TagNames == <<"latest", "v1", "v2", "v3">>

\* a stream of (namespace, name)
Stream(ins, spec, status, repo, pub) ==
  [Namespace |-> namespace, Name |-> name, insecure |-> ins,
   SpecTags |-> spec, StatusTags |-> status,
   DockerImageRepository |-> repo, PublicDockerImageRepository |-> pub]

\* the number of events of the histories h[1..k]
RECURSIVE EventCount(_, _)
EventCount(h, k) == IF k = 0 THEN 0 ELSE Len(h[k]) + EventCount(h, k - 1)

\* tag statuses: the first k tag names, each with a history over events
StatusesOver(events) ==
  UNION { { [i \in 1..k |-> [Tag |-> TagNames[i], Items |-> h[i]]] :
              h \in { g \in [1..k -> SeqUpTo(events, MaxHist)] :
                        EventCount(g, k) <= MaxHist } } :
            k \in 0..MaxTags }

\* streams whose tags record the two digests, in every arrangement
DigestEvents ==
  { [Image |-> d, DockerImageReference |-> LocalRef(d)] : d \in Digests }

ResolveStreams ==
  { Stream(FALSE, <<>>, st, LocalRegistry, "") : st \in StatusesOver(DigestEvents) }

\* tag specs: each of the first MaxTags tag names without an entry, or with
\* an entry of either import policy
SpecEntries(i) ==
  { <<>> } \cup { <<[Name |-> TagNames[i], Insecure |-> b]>> : b \in BOOLEAN }

RECURSIVE SpecsUpTo(_)
SpecsUpTo(k) ==
  IF k = 0 THEN { <<>> }
  ELSE { front \o last : front \in SpecsUpTo(k - 1), last \in SpecEntries(k) }

\* streams with every annotation and tag spec, over histories of one digest
PolicyStreams ==
  { Stream(ins, spec, st, LocalRegistry, "") :
      ins \in BOOLEAN, spec \in SpecsUpTo(MaxTags),
      st \in StatusesOver({[Image |-> "sha256:aa",
                            DockerImageReference |-> LocalRef("sha256:aa")]}) }

\* streams with histories that are empty or record a string that is no digest
UnparsableImage == "not-a-digest"

TagStreams ==
  { Stream(FALSE, <<>>, st, LocalRegistry, "") :
      st \in StatusesOver({[Image |-> "sha256:aa",
                            DockerImageReference |-> LocalRef("sha256:aa")],
                           [Image |-> UnparsableImage,
                            DockerImageReference |-> LocalRef(UnparsableImage)]}) }

\* streams of every pair of repository fields, whose tags record at most one
\* event each: of the stream itself under either host, of another stream of
\* the local registry, or of a remote repository
PublicRegistry == "registry.example.com"

ReferenceEvents ==
  { [Image |-> "sha256:aa", DockerImageReference |-> r] :
      r \in { LocalRef("sha256:aa"), RemoteRef("sha256:aa"),
              [Registry |-> PublicRegistry, Namespace |-> namespace,
               Name |-> name, ID |-> "sha256:aa"],
              [Registry |-> LocalRegistry, Namespace |-> namespace,
               Name |-> "other", ID |-> "sha256:aa"] } }

ReferenceStatuses ==
  UNION { { [i \in 1..k |-> [Tag |-> TagNames[i], Items |-> h[i]]] :
              h \in [1..k -> SeqUpTo(ReferenceEvents, 1)] } :
            k \in 0..MaxTags }

ReferenceStreams ==
  { Stream(FALSE, <<>>, st, repo, pub) :
      st \in ReferenceStatuses, repo \in {"", LocalRegistry}, pub \in {"", PublicRegistry} }

SnapshotStreams ==
  ResolveStreams \cup PolicyStreams \cup TagStreams \cup ReferenceStreams

InitSnapshot ==
  /\ \E s \in SnapshotStreams :
       imageStreamGetter = [stream |-> Cached(s), layers |-> Unfetched]
  /\ imageClient = [d \in Digests |-> Unfetched]
  /\ limitCache = {}
  /\ pc = "idle"
  /\ trace = <<>>
  /\ lastErr = NoError
  /\ observed = NoObservation
  /\ ret = NoCall

NextSnapshot ==
  \/ ResolveImageID
  \/ TagIsInsecure
  \/ Tags
  \/ RemoteRepositoriesForBlob

SpecSnapshot == InitSnapshot /\ [][NextSnapshot]_vars

(***************************************************************************)
(* The publish protocol against every outcome of the transport, with       *)
(* Exists to fill the stream cell.                                         *)
(***************************************************************************)
NextMapping ==
  \/ CreateImageStreamMappingPublish(Errors)
  \/ CreateImageStreamMappingProvision(Errors)
  \/ CreateImageStreamMappingRetry(Errors)
  \/ Exists

SpecMapping == Init /\ [][NextMapping]_vars

(***************************************************************************)
(* One request working through the facade: every operation, the publish    *)
(* protocol against the failures a server produces.                        *)
(***************************************************************************)
Next ==
  \/ Exists
  \/ ResolveImageID
  \/ GetImageOfImageStream
  \/ TagIsInsecure
  \/ Tags
  \/ RemoteRepositoriesForBlob
  \/ RemoteRepositoriesForManifest
  \/ GetSecrets
  \/ GetLimitRangeList
  \/ CreateImageStreamMappingPublish(CoreErrors)
  \/ CreateImageStreamMappingProvision(CoreErrors)
  \/ CreateImageStreamMappingRetry(CoreErrors)

Spec == Init /\ [][Next]_vars

(***************************************************************************)
(* Vocabulary of the properties.                                           *)
(***************************************************************************)
MappingCreate == Request("CreateImageStreamMapping", RegistryClient)
StreamCreate == Request("CreateImageStream", UserClient)

PublicCodes ==
  { ErrImageStreamUnknownErrorCode, ErrImageStreamNotFoundCode,
    ErrImageStreamImageNotFoundCode, ErrImageStreamForbiddenCode }

CountOf(step) == Cardinality({ k \in 1..Len(trace) : trace[k].step = step })

InMappingCall == ret.op = "CreateImageStreamMapping"
MappingFailed(code) ==
  InMappingCall /\ ret.status = "error" /\ ret.code = code /\ pc = "idle"
MappingDone == InMappingCall /\ ret.status = "ok" /\ pc = "idle"

\* the stream-missing pattern of a first failure
StreamMissingPattern(err) ==
  /\ err.kind = "status"
  /\ ~IsErrorQuotaExceeded(err)
  /\ err.Details.present
  /\ err.Details.Kind = "imagestreammappings"
  /\ err.Code = 404
  /\ err.Details.Name = name

\* a structured not-found on the kind namespaces
NamespaceNotFound(err) ==
  /\ err.kind = "status"
  /\ IsNotFound(err)
  /\ err.Details.present
  /\ ToLower(err.Details.Kind) = "namespaces"

\* outcomes of the stream create that count as provisioned
Provisioned(err) == err = NoError \/ IsAlreadyExists(err) \/ IsConflict(err)

\* outcomes of the stream create that are denials
Denied(err) == IsForbidden(err) \/ IsUnauthorized(err) \/ IsErrorQuotaExceeded(err)

\* the first mapping create of a call has just been answered
AfterFirstCreate == InMappingCall /\ trace = <<MappingCreate>>
\* the stream create of a call has just been answered
AfterStreamCreate ==
  InMappingCall /\ Len(trace) \in {2, 3} /\ trace[2].step = "CreateImageStream"
\* the second mapping create of a call has just been answered
AfterSecondCreate == InMappingCall /\ Len(trace) = 4

(***************************************************************************)
(* C1: every call of CreateImageStreamMapping issues at most two mapping   *)
(* creates and at most one stream create, and ends either in Done or in    *)
(* Failed with an error code; the outcome of the second mapping create     *)
(* ends the call.                                                          *)
(***************************************************************************)
C1_BoundedAndTerminal ==
  InMappingCall =>
    /\ CountOf("CreateImageStreamMapping") <= 2
    /\ CountOf("CreateImageStream") <= 1
    /\ pc \in {"idle", "Provisioning", "RetryingPublish"}
    /\ pc = "idle" => \/ MappingDone
                      \/ \E code \in PublicCodes : MappingFailed(code)
    /\ AfterSecondCreate => pc = "idle"

(***************************************************************************)
(* C2: on the stream-missing pattern the call goes on to one stream create *)
(* through the user client; when that is provisioned the stream is         *)
(* injected into the getter and then one more mapping create goes through  *)
(* the registry client: provision, inject, retry, in this order.           *)
(***************************************************************************)
C2_Step ==
  /\ (pc = "idle" /\ AfterFirstCreate' /\ StreamMissingPattern(lastErr'))
       => pc' = "Provisioning"
  /\ pc = "Provisioning"
       => /\ Len(trace') >= 2
          /\ trace'[1] = MappingCreate
          /\ trace'[2] = StreamCreate
          /\ Provisioned(lastErr')
               => /\ trace' = <<MappingCreate, StreamCreate, Inject>>
                  /\ imageStreamGetter'.stream = Cached(NameOnlyStream)
                  /\ pc' = "RetryingPublish"
          /\ ~Provisioned(lastErr') => trace' = <<MappingCreate, StreamCreate>>
  /\ pc = "RetryingPublish"
       => /\ trace' = <<MappingCreate, StreamCreate, Inject, MappingCreate>>
          /\ pc' = "idle"

C2_ProvisionInjectRetry == [][C2_Step]_vars

C2_Witness ==
  /\ trace = <<MappingCreate, StreamCreate, Inject, MappingCreate>>
  /\ MappingDone
  /\ imageStreamGetter.stream = Cached(NameOnlyStream)

(***************************************************************************)
(* C3: a stream create is issued only right after a first mapping create   *)
(* that failed with the stream-missing pattern.                            *)
(***************************************************************************)
StreamCreateIssuedNow ==
  \E k \in 1..Len(trace') :
    /\ trace'[k].step = "CreateImageStream"
    /\ k > Len(trace) \/ pc = "idle"

C3_ProvisionOnlyOnPattern ==
  [][StreamCreateIssuedNow
       => /\ trace = <<MappingCreate>>
          /\ InMappingCall
          /\ StreamMissingPattern(lastErr)]_vars

C3_Witness ==
  /\ AfterStreamCreate
  /\ trace[2] = StreamCreate

(***************************************************************************)
(* C4: a first failure that is neither quota-exceeded, nor a not-found on  *)
(* the kind namespaces, nor the stream-missing pattern makes the call      *)
(* return an error with code Unknown, status errors without details        *)
(* included.                                                               *)
(***************************************************************************)
C4_OtherFailuresUnknown ==
  ( /\ AfterFirstCreate
    /\ lastErr # NoError
    /\ ~IsErrorQuotaExceeded(lastErr)
    /\ ~NamespaceNotFound(lastErr)
    /\ ~StreamMissingPattern(lastErr) )
    => MappingFailed(ErrImageStreamUnknownErrorCode)

(***************************************************************************)
(* C5: a quota-exceeded outcome of any of the three requests ends the call *)
(* with code Forbidden, the denied request being the last one of the call. *)
(***************************************************************************)
C5_QuotaIsForbidden ==
  (InMappingCall /\ IsErrorQuotaExceeded(lastErr))
    => /\ MappingFailed(ErrImageStreamForbiddenCode)
       /\ trace[Len(trace)] # Inject
       /\ AfterFirstCreate \/ trace = <<MappingCreate, StreamCreate>>
            \/ AfterSecondCreate

C5_Witness ==
  /\ AfterFirstCreate
  /\ IsErrorQuotaExceeded(lastErr)
  /\ lastErr.Details.present
  /\ lastErr.Details.Kind = "imagestreammappings"
  /\ lastErr.Code = 404
  /\ lastErr.Details.Name = name
  /\ MappingFailed(ErrImageStreamForbiddenCode)

(***************************************************************************)
(* C6: the outcome of the stream create: AlreadyExists and Conflict go on  *)
(* like success (injection, then the retry); Forbidden, Unauthorized and   *)
(* quota-exceeded fail with Forbidden, anything else with Unknown, and a   *)
(* failed provisioning issues no second mapping create.                    *)
(***************************************************************************)
C6_State ==
  AfterStreamCreate =>
    /\ Provisioned(lastErr)
         => /\ trace = <<MappingCreate, StreamCreate, Inject>>
            /\ imageStreamGetter.stream = Cached(NameOnlyStream)
            /\ pc = "RetryingPublish"
    /\ (~Provisioned(lastErr) /\ Denied(lastErr))
         => /\ MappingFailed(ErrImageStreamForbiddenCode)
            /\ trace = <<MappingCreate, StreamCreate>>
    /\ (~Provisioned(lastErr) /\ ~Denied(lastErr))
         => /\ MappingFailed(ErrImageStreamUnknownErrorCode)
            /\ trace = <<MappingCreate, StreamCreate>>

C6_ProvisioningOutcome ==
  [][ /\ C6_State'
      /\ (Len(trace') = 4 /\ InMappingCall')
           => (pc = "RetryingPublish" /\ Provisioned(lastErr)) ]_vars

C6_Witness ==
  /\ AfterStreamCreate
  /\ IsConflict(lastErr)
  /\ pc = "RetryingPublish"

(***************************************************************************)
(* C7: when the first mapping create succeeds the call returns no error,   *)
(* has issued that one request only, and leaves the cells of the stream    *)
(* getter and of the image getter as they were.                            *)
(***************************************************************************)
C7_FirstSuccessFrame ==
  [][ (pc = "idle" /\ InMappingCall' /\ lastErr' = NoError)
        => /\ MappingDone'
           /\ trace' = <<MappingCreate>>
           /\ imageStreamGetter' = imageStreamGetter
           /\ imageClient' = imageClient ]_vars

C7_Witness ==
  /\ MappingDone
  /\ trace = <<MappingCreate>>
  /\ imageStreamGetter.stream.state = "ok"
  /\ imageStreamGetter.stream.value.StatusTags # <<>>
  /\ imageClient["sha256:aa"].state = "ok"

(***************************************************************************)
(* C8: the operations that read the stream.                                *)
(***************************************************************************)
StreamReaders ==
  { "Exists", "Tags", "TagIsInsecure", "ResolveImageID",
    "RemoteRepositoriesForBlob", "RemoteRepositoriesForManifest",
    "GetImageOfImageStream" }

\* the step is a read of the stream by a facade operation
ReadNow == ret'.op \in StreamReaders /\ observed' # NoObservation

\* the step is the injection of CreateImageStreamMapping: the stream create
\* was answered with success, AlreadyExists or Conflict
InjectionNow ==
  /\ pc = "Provisioning"
  /\ Provisioned(lastErr')
  /\ trace' = <<MappingCreate, StreamCreate, Inject>>
  /\ imageStreamGetter'.stream = Cached(NameOnlyStream)

(***************************************************************************)
(* C8 as stated: once the stream getter holds a memoized outcome, no       *)
(* operation of the instance, CreateImageStreamMapping included, changes   *)
(* it, and every read observes it.                                         *)
(***************************************************************************)
C8_MemoizedForever ==
  [][ imageStreamGetter.stream # Unfetched
        => /\ imageStreamGetter'.stream = imageStreamGetter.stream
           /\ ReadNow => observed' = imageStreamGetter.stream ]_vars

(***************************************************************************)
(* C8 amended: once the stream getter holds a memoized outcome, every read *)
(* observes it and leaves it in place; the one step that replaces it is    *)
(* the injection of CreateImageStreamMapping, which puts the name-only     *)
(* record in its place.                                                    *)
(***************************************************************************)
C8_MemoizedUntilInjection ==
  [][ imageStreamGetter.stream # Unfetched
        => /\ \/ imageStreamGetter'.stream = imageStreamGetter.stream
              \/ InjectionNow
           /\ ReadNow => /\ observed' = imageStreamGetter.stream
                         /\ imageStreamGetter'.stream = imageStreamGetter.stream
                         /\ \A k \in 1..Len(trace') :
                              trace'[k].step # "GetImageStream" ]_vars

C8_Witness ==
  /\ ret.op = "Tags"
  /\ ret.status = "ok"
  /\ observed = Cached(NameOnlyStream)
  /\ trace = <<>>

(***************************************************************************)
(* C9: Exists returns (true, no error) when the getter resolves the        *)
(* stream, (false, no error) on the getter's NotFound, and (false, error)  *)
(* with code Forbidden or Unknown on the getter's Forbidden or Unknown.    *)
(***************************************************************************)
C9_Exists ==
  ret.op = "Exists" =>
    /\ observed.state \in {"ok", "err"}
    /\ observed.state = "ok" => (ret.status = "ok" /\ ret.val = TRUE)
    /\ observed = CachedFailure(ErrImageStreamGetterNotFoundCode)
         => (ret.status = "ok" /\ ret.val = FALSE)
    /\ observed = CachedFailure(ErrImageStreamGetterForbiddenCode)
         => /\ ret.status = "error"
            /\ ret.code = ErrImageStreamForbiddenCode
            /\ ret.val = FALSE
    /\ observed = CachedFailure(ErrImageStreamGetterUnknownErrorCode)
         => /\ ret.status = "error"
            /\ ret.code = ErrImageStreamUnknownErrorCode
            /\ ret.val = FALSE

C9_Witness ==
  /\ ret.op = "Exists"
  /\ observed = CachedFailure(ErrImageStreamGetterNotFoundCode)
  /\ ret.status = "ok"
  /\ ret.val = FALSE

(***************************************************************************)
(* C10: every error a facade operation returns carries one of the four     *)
(* public codes; an error of the getter reaches the caller as NotFound for *)
(* the getter's NotFound, Forbidden for its Forbidden and Unknown          *)
(* otherwise.                                                              *)
(***************************************************************************)
PublicCodeOf(getterCode) ==
  IF getterCode = ErrImageStreamGetterNotFoundCode THEN ErrImageStreamNotFoundCode
  ELSE IF getterCode = ErrImageStreamGetterForbiddenCode THEN ErrImageStreamForbiddenCode
  ELSE ErrImageStreamUnknownErrorCode

C10_PublicCodesOnly ==
  ret.status = "error" =>
    /\ ret.code \in PublicCodes
    /\ ret.code \notin GetterCodes
    /\ observed.state = "err" => ret.code = PublicCodeOf(observed.code)
    /\ (ret.op = "RemoteRepositoriesForBlob" /\ observed.state = "ok")
         => /\ imageStreamGetter.layers.state = "err"
            /\ ret.code = PublicCodeOf(imageStreamGetter.layers.code)

C10_Witness ==
  /\ ret.op = "Tags"
  /\ ret.status = "error"
  /\ observed = CachedFailure(ErrImageStreamGetterNotFoundCode)
  /\ ret.code = ErrImageStreamNotFoundCode

(***************************************************************************)
(* C11: a successful GetImageOfImageStream returns the record with the     *)
(* reference of the TagEvent resolved for the digest, and the record the   *)
(* image getter holds keeps the reference the service gave: a record that  *)
(* was cached stays as it was, a record fetched by the call is cached as   *)
(* fetched.                                                                *)
(***************************************************************************)
C11_Step ==
  (ret'.op = "GetImageOfImageStream" /\ ret'.status = "ok")
    => LET d == ret'.val.Name IN
       /\ observed'.state = "ok"
       /\ \E pos \in MatchingEvents(observed'.value, d) :
            ret'.val.DockerImageReference =
              EventAt(observed'.value, pos).DockerImageReference
       /\ imageClient'[d].state = "ok"
       /\ imageClient'[d].value.Name = d
       /\ imageClient[d] # Unfetched
            => /\ imageClient'[d] = imageClient[d]
               /\ \A k \in 1..Len(trace') : trace'[k].step # "GetImage"
       /\ imageClient[d] = Unfetched
            => /\ trace'[Len(trace')].step = "GetImage"
               /\ imageClient'[d] = trace'[Len(trace')].response

C11_ReferenceOfTagEvent == [][C11_Step]_vars

C11_Witness ==
  /\ ret.op = "GetImageOfImageStream"
  /\ ret.status = "ok"
  /\ trace = <<>>
  /\ imageClient[ret.val.Name].state = "ok"
  /\ imageClient[ret.val.Name].value.DockerImageReference
       # ret.val.DockerImageReference

(***************************************************************************)
(* C12 as stated: ResolveImageID returns a TagEvent and no error when      *)
(* exactly one TagEvent of the stream records the digest, and an error     *)
(* when none or more than one TagEvent records it, ImageNotFound when      *)
(* none does.                                                              *)
(***************************************************************************)
RecordingEvents(stream, dgst) ==
  { pos \in EventPositions(stream) : EventAt(stream, pos).Image = dgst }

ResolveReturned == ret.op = "ResolveImageID" /\ observed.state = "ok"

EffectiveTags(stream, tag, dgst) ==
  IF tag # "" THEN {tag}
  ELSE LET inferred == { stream.StatusTags[i].Tag : i \in
                           { j \in 1..Len(stream.StatusTags) :
                               \E k \in 1..Len(stream.StatusTags[j].Items) :
                                 stream.StatusTags[j].Items[k].Image = dgst } }
       IN IF inferred = {} THEN {""} ELSE inferred

SpecEntriesOf(stream, t) ==
  { k \in 1..Len(stream.SpecTags) : stream.SpecTags[k].Name = t }

C13_TagIsInsecure ==
  (ret.op = "TagIsInsecure" /\ observed.state = "ok") =>
    LET stream == observed.value IN
    /\ ret.status = "ok"
    /\ stream.insecure => ret.val = TRUE
    /\ ~stream.insecure =>
         \E t \in EffectiveTags(stream, ret.arg.tag, ret.arg.dgst) :
           /\ (t = "" \/ SpecEntriesOf(stream, t) = {}) => ret.val = FALSE
           /\ (t # "" /\ SpecEntriesOf(stream, t) # {}) =>
                \A k \in SpecEntriesOf(stream, t) :
                  ret.val = stream.SpecTags[k].Insecure

C13_Witness ==
  /\ ret.op = "TagIsInsecure"
  /\ observed.state = "ok"
  /\ ~observed.value.insecure
  /\ ret.arg.tag = ""
  /\ EffectiveTags(observed.value, "", ret.arg.dgst) = {"v1"}
  /\ SpecEntriesOf(observed.value, "v1") # {}
  /\ ret.val = FALSE

(***************************************************************************)
(* C14: RemoteRepositoriesForBlob on a stream without external references  *)
(* returns empty results and no error, issues no layers request and leaves *)
(* the layers cell of the stream getter as it was: unfetched if it was     *)
(* unfetched before the call.                                              *)
(***************************************************************************)
C14_Step ==
  ( /\ ret'.op = "RemoteRepositoriesForBlob"
    /\ observed'.state = "ok"
    /\ ~imageStreamHasExternalReferences(observed'.value) )
    => /\ ret'.status = "ok"
       /\ ret'.val = [repos |-> {}, isrefs |-> {}]
       /\ \A k \in 1..Len(trace') : trace'[k].step # "GetImageStreamLayers"
       /\ imageStreamGetter'.layers = imageStreamGetter.layers
       /\ imageStreamGetter.layers = Unfetched => imageStreamGetter'.layers = Unfetched

C14_NoLayersFetch == [][C14_Step]_vars

C14_Witness ==
  /\ ret.op = "RemoteRepositoriesForBlob"
  /\ ret.status = "ok"
  /\ observed.state = "ok"
  /\ observed.value.StatusTags # <<>>
  /\ ~imageStreamHasExternalReferences(observed.value)
  /\ imageStreamGetter.layers = Unfetched

(***************************************************************************)
(* C15: Tags on a resolvable stream returns no error and the map that      *)
(* holds, for every tag with a non-empty history whose first TagEvent      *)
(* records a digest that parses, the tag with that digest, and nothing     *)
(* else: tags with an empty history or with a first digest that does not   *)
(* parse are absent and take no entry of another tag away.                 *)
(***************************************************************************)
\* the tags of the stream that have a most recent TagEvent with a digest
TagsWithDigest(stream) ==
  { i \in 1..Len(stream.StatusTags) :
      /\ stream.StatusTags[i].Items # <<>>
      /\ stream.StatusTags[i].Items[1].Image \in Digests }

C15_TagsSkips ==
  (ret.op = "Tags" /\ observed.state = "ok") =>
    LET stream == observed.value IN
    /\ ret.status = "ok"
    /\ \A i \in TagsWithDigest(stream) :
         <<stream.StatusTags[i].Tag, stream.StatusTags[i].Items[1].Image>> \in ret.val
    /\ \A entry \in ret.val :
         \E i \in TagsWithDigest(stream) :
           entry = <<stream.StatusTags[i].Tag, stream.StatusTags[i].Items[1].Image>>

C15_Witness ==
  /\ ret.op = "Tags"
  /\ ret.status = "ok"
  /\ observed.state = "ok"
  /\ Len(observed.value.StatusTags) = 3
  /\ observed.value.StatusTags[1].Items # <<>>
  /\ observed.value.StatusTags[1].Items[1].Image = UnparsableImage
  /\ observed.value.StatusTags[2].Items = <<>>
  /\ ret.val = {<<"v2", "sha256:aa">>}

(***************************************************************************)
(* C16: GetLimitRangeList with a cache supplied.  When the cache holds an  *)
(* entry for the namespace the call returns that entry and issues no       *)
(* request.  Otherwise it issues exactly one list request; when the list   *)
(* succeeds the call succeeds with the list, whether or not cache.Add      *)
(* fails, and the list is in the cache under the namespace when cache.Add  *)
(* succeeded; when the list fails the call fails with code Unknown and the *)
(* cache is as it was.  A call that finds an entry the call before it      *)
(* added issues no request.                                                *)
(***************************************************************************)
EntriesOf(cache) == { e \in cache : e.Namespace = namespace }

ListRequests(t) == { k \in 1..Len(t) : t[k].step = "ListLimitRanges" }

C16_Step ==
  (ret'.op = "GetLimitRangeList" /\ ret'.arg.supplied) =>
    /\ EntriesOf(limitCache) # {} =>
         /\ ret'.status = "ok"
         /\ \E e \in EntriesOf(limitCache) : ret'.val = e.List
         /\ trace' = <<>>
         /\ limitCache' = limitCache
    /\ EntriesOf(limitCache) = {} =>
         /\ Cardinality(ListRequests(trace')) = 1
         /\ lastErr' = NoError =>
              /\ ret'.status = "ok"
              /\ ret'.arg.addOk =>
                   limitCache' = limitCache \cup {[Namespace |-> namespace, List |-> ret'.val]}
              /\ ~ret'.arg.addOk => limitCache' = limitCache
         /\ lastErr' # NoError =>
              /\ ret'.status = "error"
              /\ ret'.code = ErrImageStreamUnknownErrorCode
              /\ limitCache' = limitCache
    /\ ( /\ ret.op = "GetLimitRangeList"
         /\ ret.status = "ok"
         /\ ret.arg.supplied
         /\ ret.arg.addOk ) => trace' = <<>>

C16_LimitRangeCache == [][C16_Step]_vars

\* a call answered from the entry the call before it added
C16_Witness ==
  /\ ret.op = "GetLimitRangeList"
  /\ ret.status = "ok"
  /\ ret.arg.supplied
  /\ ret.val = "limits-listed"
  /\ trace = <<>>

(***************************************************************************)
(* C17 as stated: the test is false for every stream in which the          *)
(* reference of every tag-status item is prefixed by one of the local      *)
(* registry hostnames of the stream, and true as soon as the reference of  *)
(* one item is not.                                                        *)
(***************************************************************************)
\* the hostnames of the two repository fields of the stream
LocalHostnames(stream) ==
  {stream.DockerImageRepository, stream.PublicDockerImageRepository} \ {""}

\* RemoteRepositoriesForBlob worked on a stream
BlobCall == ret.op = "RemoteRepositoriesForBlob" /\ observed.state = "ok"

C17_HostnamePrefix ==
  BlobCall =>
    LET stream == observed.value
        foreign == \E pos \in EventPositions(stream) :
                     EventAt(stream, pos).DockerImageReference.Registry
                       \notin LocalHostnames(stream)
    IN /\ imageStreamHasExternalReferences(stream) = foreign
       /\ (imageStreamGetter.layers # Unfetched) = foreign

(***************************************************************************)
(* C17 amended: the test is false for every stream in which the reference  *)
(* of every tag-status item starts with hostname/namespace/name@ for one   *)
(* of the local registry hostnames of the stream and the namespace and     *)
(* name of the stream itself, and true as soon as the reference of one     *)
(* item does not: a reference to another repository of a local hostname    *)
(* is external.  RemoteRepositoriesForBlob goes on to the layers exactly   *)
(* when the test is true.                                                  *)
(***************************************************************************)
C17_OwnRepositoryPrefix ==
  BlobCall =>
    LET stream == observed.value
        foreign == \E pos \in EventPositions(stream) :
                     LET ref == EventAt(stream, pos).DockerImageReference
                     IN ~ /\ ref.Registry \in LocalHostnames(stream)
                          /\ ref.Namespace = stream.Namespace
                          /\ ref.Name = stream.Name
    IN /\ imageStreamHasExternalReferences(stream) = foreign
       /\ (imageStreamGetter.layers # Unfetched) = foreign

\* a stream with a reference to another repository of its local registry
C17_Witness ==
  /\ ret.op = "RemoteRepositoriesForBlob"
  /\ observed.state = "ok"
  /\ imageStreamGetter.layers # Unfetched
  /\ EventPositions(observed.value) # {}
  /\ \A pos \in EventPositions(observed.value) :
       EventAt(observed.value, pos).DockerImageReference.Registry
         \in LocalHostnames(observed.value)

(***************************************************************************)
(* C18: when the first mapping create fails with a structured not-found    *)
(* whose details name the kind namespaces, the call ends there with code   *)
(* Forbidden: its only request is that mapping create, neither a stream    *)
(* create nor a second mapping create follows.                             *)
(***************************************************************************)
C18_NamespaceMissingForbidden ==
  (AfterFirstCreate /\ NamespaceNotFound(lastErr)) =>
    /\ MappingFailed(ErrImageStreamForbiddenCode)
    /\ pc = "idle"
    /\ CountOf("CreateImageStream") = 0
    /\ CountOf("CreateImageStreamMapping") = 1

C18_Witness ==
  /\ AfterFirstCreate
  /\ NamespaceNotFound(lastErr)
  /\ lastErr.Details.Kind = "namespaces"
  /\ ret.status = "error"
  /\ pc = "idle"

(***************************************************************************)
(* C19: a step of CreateImageStreamMapping writes the stream cell of the   *)
(* getter exactly when it is the stream create answered with success,      *)
(* AlreadyExists or Conflict; the first mapping create, a stream create    *)
(* answered otherwise and the second mapping create leave the getter as    *)
(* it was, so that a call returning before the injection leaves the        *)
(* memoized outcome what it was before the call.                           *)
(***************************************************************************)
C19_Step ==
  ret'.op = "CreateImageStreamMapping" =>
    /\ (pc = "Provisioning" /\ Provisioned(lastErr'))
         => /\ imageStreamGetter'.stream = Cached(NameOnlyStream)
            /\ trace'[Len(trace')] = Inject
    /\ ~(pc = "Provisioning" /\ Provisioned(lastErr'))
         => /\ imageStreamGetter' = imageStreamGetter
            /\ \A k \in 1..Len(trace') : trace'[k] # Inject
                 \/ (k <= Len(trace) /\ trace[k] = Inject)
    /\ imageStreamGetter'.layers = imageStreamGetter.layers

C19_CacheWrittenOnlyByInjection == [][C19_Step]_vars

\* provisioning was denied and the memoized failure is still in place
C19_Witness ==
  /\ AfterStreamCreate
  /\ MappingFailed(ErrImageStreamForbiddenCode)
  /\ imageStreamGetter.stream = CachedFailure(ErrImageStreamGetterNotFoundCode)

(***************************************************************************)
(* C20: the record the injection puts into the stream getter is the        *)
(* name-only record built by the call, also when the stream create was     *)
(* answered with AlreadyExists or Conflict and whatever was memoized       *)
(* before; the second mapping create leaves it there whether it succeeds   *)
(* or fails, nothing replaces it afterwards, and from then on Exists       *)
(* returns true and Tags returns the empty map without a request.          *)
(***************************************************************************)
C20_Step ==
  LET injected == Cached(NameOnlyStream) IN
  /\ (pc = "Provisioning" /\ Provisioned(lastErr'))
       => imageStreamGetter'.stream = injected
  /\ pc = "RetryingPublish"
       => imageStreamGetter.stream = injected
  /\ imageStreamGetter.stream = injected
       => /\ imageStreamGetter'.stream = injected
          /\ ret'.op = "Exists"
               => ret'.status = "ok" /\ ret'.val = TRUE /\ trace' = <<>>
          /\ ret'.op = "Tags"
               => ret'.status = "ok" /\ ret'.val = {} /\ trace' = <<>>

C20_NameOnlyRecordInjected == [][C20_Step]_vars

\* Exists answered from the injected record
C20_Witness ==
  /\ ret.op = "Exists"
  /\ ret.status = "ok"
  /\ ret.val = TRUE
  /\ trace = <<>>
  /\ observed = Cached(NameOnlyStream)

====
